---- MODULE Spec2Model ----
(***************************************************************************)
(* A model of server.js: the Express handlers POST /chat, POST /login and  *)
(* POST /register over the two mongoose collections (User, Conversation)   *)
(* and the upstream generateContent call.                                  *)
(*                                                                         *)
(* A handler is an async function: it runs without interruption up to its  *)
(* next `await`, so the model has one action per segment between awaits.   *)
(* The store operation or upstream call a segment awaits takes effect in   *)
(* the action that resumes the handler.                                    *)
(*                                                                         *)
(* Strings the handlers inspect (usernames, message texts, passwords,      *)
(* reply parts) are sequences of one-character strings, so that emptiness, *)
(* trimming, concatenation and joining are computed rather than assumed.   *)
(***************************************************************************)
EXTENDS Integers, Sequences, FiniteSets, TLC

\* ------------------------------------------------------------------ bounds
\* Number of requests the server receives in one behaviour.
MaxReq == 2
\* Number of requests that may be between their first and last step at once.
MaxInFlight == 2

\* A request occupies a slot from its arrival until the next request reuses
\* the slot after it was answered; its number (arrival order) identifies it.
Slots == 1..MaxInFlight

\* ----------------------------------------------------------------- strings
Empty == <<>>
Blank == <<" ">>

\* A field of a request body: absent, or present with a string value.
Absent == [present |-> FALSE, str |-> Empty]
Given(s) == [present |-> TRUE, str |-> s]

\* String.prototype.trim on a string of the model: strips leading and
\* trailing blanks.  server.js never calls it; the trimmed reading of the
\* validation rule is stated with it.
RECURSIVE TrimLeft(_)
TrimLeft(s) == IF s # Empty /\ Head(s) = " " THEN TrimLeft(Tail(s)) ELSE s
RECURSIVE TrimRight(_)
TrimRight(s) ==
    IF s # Empty /\ s[Len(s)] = " " THEN TrimRight(SubSeq(s, 1, Len(s) - 1)) ELSE s
Trim(s) == TrimRight(TrimLeft(s))

\* Mutant of StrOrEmpty: the field is trimmed before it is tested and used.
StrOrEmptyTrimmed(v) == IF v.present THEN Trim(v.str) ELSE Empty

\* (req.body.x || "").toString(): an absent or empty field becomes "".
StrOrEmpty(v) == IF v.present /\ v.str # Empty THEN v.str ELSE Empty

\* The values a client may send.
ChatBodies ==
    { [username |-> Absent,          message |-> Given(<<"h", "i">>)],
      [username |-> Given(Empty),    message |-> Given(<<"h", "i">>)],
      [username |-> Given(<<"a">>),  message |-> Absent],
      [username |-> Given(<<"a">>),  message |-> Given(Empty)],
      [username |-> Given(<<"a">>),  message |-> Given(Blank)],
      [username |-> Given(Blank),    message |-> Given(<<"h", "i">>)],
      [username |-> Given(<<"a">>),  message |-> Given(<<"h", "i">>)] }
FormBodies ==
    { [username |-> <<"a">>, password |-> <<"p">>],
      [username |-> <<"a">>, password |-> <<"q">>],
      [username |-> Blank,   password |-> <<"p">>],
      [username |-> Empty,   password |-> <<"p">>],
      [username |-> <<"a">>, password |-> Empty] }

\* The fallback reply template of the chat handler.
FallbackReply(text) ==
    <<"Local-mode reply: I heard \"">> \o text
        \o <<"\" - set GOOGLE_API_KEY to enable real AI.">>

\* ---------------------------------------------------------------- upstream
\* What axios.post can produce.  kind "network": no response (connection
\* error or the 120 s timeout), axios throws.  kind "http": a non-2xx
\* response, axios throws with err.response.data = data.  kind "ok": a 2xx
\* response whose body is data.  data.parts is the list of the text fields of
\* candidates[0].content.parts (hasParts FALSE when that path is missing);
\* data.error is data.error.message, Empty when missing.
ServerError == <<"Server error">>
NoReply == <<"No reply from Gemini">>
Quota == <<"quota">>

NoData == [hasParts |-> FALSE, parts |-> <<>>, error |-> Empty]
NoOutcome == [kind |-> "none", data |-> NoData]
UpstreamOutcomes ==
    { [kind |-> "network", data |-> NoData],
      [kind |-> "http", data |-> [NoData EXCEPT !.error = Quota]],
      [kind |-> "ok", data |-> [NoData EXCEPT !.error = Quota]],
      [kind |-> "ok", data |-> [hasParts |-> TRUE, parts |-> << Empty >>, error |-> Empty]],
      [kind |-> "ok",
       data |-> [hasParts |-> TRUE, parts |-> << <<"y">>, Empty, <<"o">> >>, error |-> Empty]] }

\* .filter(Boolean) on the texts of the parts: drops the empty ones.
RECURSIVE FilterBoolean(_)
FilterBoolean(parts) ==
    IF parts = <<>> THEN <<>>
    ELSE IF Head(parts) = Empty THEN FilterBoolean(Tail(parts))
    ELSE <<Head(parts)>> \o FilterBoolean(Tail(parts))

\* Array.prototype.join("\n").
RECURSIVE JoinNewline(_)
JoinNewline(parts) ==
    IF parts = <<>> THEN Empty
    ELSE IF Len(parts) = 1 THEN Head(parts)
    ELSE Head(parts) \o <<"\n">> \o JoinNewline(Tail(parts))

\* reply of the chat handler: the joined non-empty parts, or Empty for null.
ParseReply(data) ==
    LET replyParts == IF data.hasParts THEN FilterBoolean(data.parts) ELSE <<>>
    IN  IF Len(replyParts) > 0 THEN JoinNewline(replyParts) ELSE Empty

\* data?.error?.message || "No reply from Gemini"
ApiError(data) == IF data.error # Empty THEN data.error ELSE NoReply

\* Mutant of CatchMessage: an error without a response (network failure,
\* timeout) gets a message of its own.
CatchMessageNamesNetwork(outcome) ==
    IF outcome.kind = "http" /\ outcome.data.error # Empty THEN outcome.data.error
    ELSE IF outcome.kind = "network" THEN <<"Upstream unavailable">>
    ELSE ServerError

\* err?.response?.data?.error?.message || "Server error"
CatchMessage(outcome) ==
    IF outcome.kind = "http" /\ outcome.data.error # Empty
    THEN outcome.data.error ELSE ServerError

\* ------------------------------------------------------------------- state
VARIABLES
    users,      \* the User collection, in insertion order
    convos,     \* the Conversation collection, in insertion order
    apiKey,     \* process.env.GOOGLE_API_KEY is set
    now,        \* the clock behind Date.now() / new Date()
    nextId,     \* the next fresh ObjectId
    started,    \* number of requests received so far
    req,        \* per slot: the handler's position and locals
    broken      \* history: some chat turn saved its user turn and then ended
                \* without a reply (read by the properties only)

vars == <<users, convos, apiKey, now, nextId, started, req, broken>>

NoDoc == [id |-> 0, user |-> 0, isNew |-> FALSE, messages |-> <<>>,
          pending |-> <<>>, updatedAt |-> 0]

\* A request that has not arrived yet.
IdleReq ==
    [ id |-> 0, kind |-> "none", pc |-> "idle",
      username |-> Empty, text |-> Empty, password |-> Empty,
      user |-> 0, stamp |-> 0, convo |-> NoDoc, contents |-> <<>>,
      status |-> 0, body |-> Empty, responses |-> 0,
      \* history of the request, read by the properties only
      rawUsername |-> Absent, rawText |-> Absent,
      reads |-> 0, writes |-> 0, calls |-> 0,
      base |-> 0, userSaved |-> FALSE, generated |-> FALSE,
      failedAt |-> "", outcome |-> NoOutcome ]

\* A registered user as userSchema builds it.
NewUser(id, username, password, t) ==
    [ id |-> id, username |-> username, password |-> password,
      joinDate |-> t, lastLogin |-> t + 1, achievements |-> <<"First Login">> ]

\* The database outlives the server: when the server starts it may be empty,
\* hold a registered user, or hold that user and the conversation of an
\* earlier chat turn (request number 0 stands for the earlier run).
InitialStores ==
    LET alice == NewUser(1, <<"a">>, <<"p">>, 0)
        turn == << [role |-> "user", text |-> <<"h", "i">>, createdAt |-> 0, by |-> 0],
                   [role |-> "model", text |-> <<"y">>, createdAt |-> 1, by |-> 0] >>
    IN  { [users |-> <<>>, convos |-> <<>>],
          [users |-> <<alice>>, convos |-> <<>>],
          [users |-> <<alice>>,
           convos |-> << [id |-> 2, user |-> 1, messages |-> turn, updatedAt |-> 1] >>] }

Init ==
    /\ \E db \in InitialStores : users = db.users /\ convos = db.convos
    /\ apiKey \in BOOLEAN
    /\ now = 2
    /\ nextId = 3
    /\ started = 0
    /\ req = [s \in Slots |-> IdleReq]
    /\ broken = FALSE

\* ------------------------------------------------------------------- store
Indices(s) == 1..Len(s)

\* Model.findOne(filter) scans the collection in insertion order: of the
\* positions that match, the first, or 0 for null.
FirstOf(matches) ==
    IF matches = {} THEN 0
    ELSE CHOOSE i \in matches : \A j \in matches : i <= j

\* mongoose.model("User").findOne({ username })
FindUserByName(username) ==
    FirstOf({ i \in Indices(users) : users[i].username = username })

\* User.findOne({ username, password })
FindUserByCredentials(username, password) ==
    FirstOf({ i \in Indices(users) :
                users[i].username = username /\ users[i].password = password })

\* Conversation.findOne({ user: user._id })
FindConvoByUser(userId) ==
    FirstOf({ i \in Indices(convos) : convos[i].user = userId })

\* convo.messages.push({role, text}): the subdocument gets createdAt from
\* Date.now; `by` records the request that pushed it (history only).
Message(role, text, t, r) == [role |-> role, text |-> text, createdAt |-> t, by |-> r]

\* convo.messages.push(m); convo.updatedAt = new Date(): two clock reads.
Push(doc, role, text, r) ==
    LET m == Message(role, text, now, r)
    IN  [doc EXCEPT !.messages = Append(@, m),
                    !.pending = Append(@, m),
                    !.updatedAt = now + 1]

\* Mutant of SavedConvos: a loaded document is updated with $set of its whole
\* messages array as the handler holds it.
SavedConvosOverwrite(doc) ==
    IF doc.isNew
    THEN Append(convos, [id |-> doc.id, user |-> doc.user,
                         messages |-> doc.messages, updatedAt |-> doc.updatedAt])
    ELSE [i \in Indices(convos) |->
            IF convos[i].id = doc.id
            THEN [convos[i] EXCEPT !.messages = doc.messages,
                                   !.updatedAt = doc.updatedAt]
            ELSE convos[i]]

\* Mutant of SavedConvos: the messages pushed since the load are placed in
\* front of the stored array.
SavedConvosPrepends(doc) ==
    IF doc.isNew
    THEN Append(convos, [id |-> doc.id, user |-> doc.user,
                         messages |-> doc.messages, updatedAt |-> doc.updatedAt])
    ELSE [i \in Indices(convos) |->
            IF convos[i].id = doc.id
            THEN [convos[i] EXCEPT !.messages = doc.pending \o @,
                                   !.updatedAt = doc.updatedAt]
            ELSE convos[i]]

\* convo.save(): a new document is inserted whole; a loaded document is
\* updated with $push of the messages pushed since it was loaded or last
\* saved and $set of updatedAt.
SavedConvos(doc) ==
    IF doc.isNew
    THEN Append(convos, [id |-> doc.id, user |-> doc.user,
                         messages |-> doc.messages, updatedAt |-> doc.updatedAt])
    ELSE [i \in Indices(convos) |->
            IF convos[i].id = doc.id
            THEN [convos[i] EXCEPT !.messages = @ \o doc.pending,
                                   !.updatedAt = doc.updatedAt]
            ELSE convos[i]]

\* Mutant of AfterSave: the pushed messages stay marked as unsaved, so the
\* next save pushes them again.
AfterSaveKeepsPending(doc) == [doc EXCEPT !.isNew = FALSE]

\* After save() resolved the document is no longer new and has no unsaved
\* pushes.
AfterSave(doc) == [doc EXCEPT !.isNew = FALSE, !.pending = <<>>]

\* Mutant of Contents: only the turns that belong to a completed exchange and
\* the latest message are sent (a user turn left without a reply is skipped).
ContentsSkipsUnanswered(messages) ==
    LET kept == { i \in Indices(messages) :
                    \/ i = Len(messages)
                    \/ messages[i].role = "model"
                    \/ messages[i + 1].role = "model" }
        Nth(k) == CHOOSE i \in kept : Cardinality({ j \in kept : j <= i }) = k
    IN  [k \in 1..Cardinality(kept) |->
            [ role |-> IF messages[Nth(k)].role = "user" THEN "user" ELSE "assistant",
              parts |-> << messages[Nth(k)].text >> ]]

\* contents: convo.messages mapped to the upstream turn format.
Contents(messages) ==
    [i \in Indices(messages) |->
        [ role |-> IF messages[i].role = "user" THEN "user" ELSE "assistant",
          parts |-> << messages[i].text >> ]]

\* ---------------------------------------------------------------- requests
Free(s) == req[s].pc \in {"idle", "done"}
InFlight == {s \in Slots : ~Free(s)}

\* A request arrives and takes slot s, the lowest free one.
Arrives(s) ==
    /\ started < MaxReq
    /\ Free(s)
    /\ \A t \in 1..(s - 1) : ~Free(t)

\* The locals of an arriving request, numbered in arrival order.
Fresh(kind) == [IdleReq EXCEPT !.id = started + 1, !.kind = kind]

\* res.status(s).json(b) / res.send / res.redirect: the handler's response.
Respond(q, status, body) ==
    [q EXCEPT !.pc = "done", !.status = status, !.body = body,
              !.responses = @ + 1, !.convo = NoDoc]

\* The step of slot r leaves its request as q.
Set(r, q) ==
    /\ req' = [req EXCEPT ![r] = q]
    /\ broken' = (broken \/ (q.kind = "chat" /\ q.pc = "done" /\ q.userSaved
                                /\ q.status # 200))

\* ------------------------------------------------------------- POST /chat
\* Mutant of PostChat: the validation tests the username only.
PostChatChecksUsernameOnly(r, body) ==
    /\ Arrives(r)
    /\ LET username == StrOrEmpty(body.username)
           text == StrOrEmpty(body.message)
           q == [Fresh("chat") EXCEPT !.username = username, !.text = text,
                                      !.rawUsername = body.username,
                                      !.rawText = body.message]
       IN  IF username = Empty
           THEN Set(r, Respond(q, 400, <<"username and message required">>))
           ELSE Set(r, [q EXCEPT !.pc = "findUser"])
    /\ started' = started + 1
    /\ UNCHANGED <<users, convos, apiKey, now, nextId>>

\* Lines 42-49: parse the body, validate, issue User.findOne.
PostChat(r, body) ==
    /\ Arrives(r)
    /\ LET username == StrOrEmpty(body.username)
           text == StrOrEmpty(body.message)
           q == [Fresh("chat") EXCEPT !.username = username, !.text = text,
                                      !.rawUsername = body.username,
                                      !.rawText = body.message]
       IN  IF username = Empty \/ text = Empty
           THEN Set(r, Respond(q, 400, <<"username and message required">>))
           ELSE Set(r, [q EXCEPT !.pc = "findUser"])
    /\ started' = started + 1
    /\ UNCHANGED <<users, convos, apiKey, now, nextId>>

\* Mutant of ChatFindUser: the `if (!user)` answer is missing and the
\* handler goes on with a null user reference.
ChatFindUserNoCheck(r) ==
    /\ req[r].pc = "findUser"
    /\ LET i == FindUserByName(req[r].username)
           q == [req[r] EXCEPT !.reads = @ + 1]
       IN  Set(r, [q EXCEPT !.pc = "findConvo",
                            !.user = IF i = 0 THEN 0 ELSE users[i].id])
    /\ UNCHANGED <<users, convos, apiKey, now, nextId, started>>

\* Lines 49-53: User.findOne resolves; 404 or issue Conversation.findOne.
ChatFindUser(r) ==
    /\ req[r].pc = "findUser"
    /\ LET i == FindUserByName(req[r].username)
           q == [req[r] EXCEPT !.reads = @ + 1]
       IN  IF i = 0
           THEN Set(r, Respond(q, 404, <<"user not found">>))
           ELSE Set(r, [q EXCEPT !.pc = "findConvo", !.user = users[i].id])
    /\ UNCHANGED <<users, convos, apiKey, now, nextId, started>>

\* Mutant of ChatFindConvo: convo.save() is not awaited, so generation is
\* started while the user-turn save is still in flight.
ChatFindConvoGeneratesEarly(r) ==
    /\ req[r].pc = "findConvo"
    /\ LET i == FindConvoByUser(req[r].user)
           doc == IF i = 0
                  THEN [NoDoc EXCEPT !.id = nextId, !.user = req[r].user,
                                     !.isNew = TRUE]
                  ELSE [NoDoc EXCEPT !.id = convos[i].id, !.user = convos[i].user,
                                     !.messages = convos[i].messages,
                                     !.updatedAt = convos[i].updatedAt]
       IN  /\ Set(r, [req[r] EXCEPT !.pc = "saveUser",
                                    !.reads = @ + 1,
                                    !.base = Len(doc.messages),
                                    !.generated = TRUE,
                                    !.convo = Push(doc, "user", req[r].text, req[r].id)])
           /\ nextId' = IF i = 0 THEN nextId + 1 ELSE nextId
    /\ now' = now + 2
    /\ UNCHANGED <<users, convos, apiKey, started>>

\* Lines 53-61: Conversation.findOne resolves; get or create, push the user
\* turn, set updatedAt, issue convo.save.
ChatFindConvo(r) ==
    /\ req[r].pc = "findConvo"
    /\ LET i == FindConvoByUser(req[r].user)
           doc == IF i = 0
                  THEN [NoDoc EXCEPT !.id = nextId, !.user = req[r].user,
                                     !.isNew = TRUE]
                  ELSE [NoDoc EXCEPT !.id = convos[i].id, !.user = convos[i].user,
                                     !.messages = convos[i].messages,
                                     !.updatedAt = convos[i].updatedAt]
       IN  /\ Set(r, [req[r] EXCEPT !.pc = "saveUser",
                                    !.reads = @ + 1,
                                    !.base = Len(doc.messages),
                                    !.convo = Push(doc, "user", req[r].text, req[r].id)])
           /\ nextId' = IF i = 0 THEN nextId + 1 ELSE nextId
    /\ now' = now + 2
    /\ UNCHANGED <<users, convos, apiKey, started>>

\* Mutant of ChatSaveUserTurn: contents is built from the conversation as the
\* store holds it after the save, not from the document the handler loaded.
ChatSaveUserTurnReloads(r) ==
    /\ req[r].pc = "saveUser"
    /\ convos' = SavedConvos(req[r].convo)
    /\ LET doc == AfterSave(req[r].convo)
           stored == SavedConvos(req[r].convo)
           i == FirstOf({ k \in Indices(stored) : stored[k].id = doc.id })
           q == [req[r] EXCEPT !.writes = @ + 1, !.userSaved = TRUE,
                               !.generated = TRUE,
                               !.contents = Contents(stored[i].messages)]
       IN  IF ~apiKey
           THEN /\ Set(r, [q EXCEPT !.pc = "saveFallback",
                                    !.body = FallbackReply(q.text),
                                    !.convo = Push(doc, "model", FallbackReply(q.text), q.id)])
                /\ now' = now + 2
           ELSE /\ Set(r, [q EXCEPT !.pc = "upstream", !.convo = doc,
                                    !.calls = @ + 1])
                /\ now' = now
    /\ UNCHANGED <<users, apiKey, nextId, started>>

\* Lines 61-91: the user-turn save resolves; build contents; without an API
\* key push the fallback reply and issue convo.save, otherwise issue
\* axios.post.
ChatSaveUserTurn(r) ==
    /\ req[r].pc = "saveUser"
    /\ convos' = SavedConvos(req[r].convo)
    /\ LET doc == AfterSave(req[r].convo)
           q == [req[r] EXCEPT !.writes = @ + 1, !.userSaved = TRUE,
                               !.generated = TRUE,
                               !.contents = Contents(doc.messages)]
       IN  IF ~apiKey
           THEN /\ Set(r, [q EXCEPT !.pc = "saveFallback",
                                    !.body = FallbackReply(q.text),
                                    !.convo = Push(doc, "model", FallbackReply(q.text), q.id)])
                /\ now' = now + 2
           ELSE /\ Set(r, [q EXCEPT !.pc = "upstream", !.convo = doc,
                                    !.calls = @ + 1])
                /\ now' = now
    /\ UNCHANGED <<users, apiKey, nextId, started>>

\* Lines 77-78: the fallback save resolves; reply.
ChatSaveFallback(r) ==
    /\ req[r].pc = "saveFallback"
    /\ convos' = SavedConvos(req[r].convo)
    /\ Set(r, Respond([req[r] EXCEPT !.writes = @ + 1], 200, req[r].body))
    /\ UNCHANGED <<users, apiKey, now, nextId, started>>

\* Mutant of ChatAxiosPost: a 2xx body without reply text is not answered
\* 502; its error text is saved as the model turn.
ChatAxiosPostSavesError(r, outcome) ==
    /\ req[r].pc = "upstream"
    /\ LET q == [req[r] EXCEPT !.outcome = outcome]
           parsed == ParseReply(outcome.data)
           reply == IF parsed = Empty THEN ApiError(outcome.data) ELSE parsed
       IN  IF outcome.kind # "ok"
           THEN /\ Set(r, Respond(q, 500, CatchMessage(outcome)))
                /\ now' = now
           ELSE /\ Set(r, [q EXCEPT !.pc = "saveReply", !.body = reply,
                                    !.convo = Push(@, "model", reply, q.id)])
                /\ now' = now + 2
    /\ UNCHANGED <<users, convos, apiKey, nextId, started>>

\* Mutant of ChatAxiosPost: a failure without a response is retried once.
ChatAxiosPostRetries(r, outcome) ==
    /\ req[r].pc = "upstream"
    /\ LET q == [req[r] EXCEPT !.outcome = outcome]
           reply == ParseReply(outcome.data)
       IN  IF outcome.kind = "network" /\ req[r].calls < 2
           THEN /\ Set(r, [req[r] EXCEPT !.calls = @ + 1])
                /\ now' = now
           ELSE IF outcome.kind # "ok"
           THEN /\ Set(r, Respond(q, 500, CatchMessage(outcome)))
                /\ now' = now
           ELSE IF reply = Empty
           THEN /\ Set(r, Respond(q, 502, ApiError(outcome.data)))
                /\ now' = now
           ELSE /\ Set(r, [q EXCEPT !.pc = "saveReply", !.body = reply,
                                    !.convo = Push(@, "model", reply, q.id)])
                /\ now' = now + 2
    /\ UNCHANGED <<users, convos, apiKey, nextId, started>>

\* Mutant of ChatAxiosPost: the `if (!reply)` answer is missing, so a 2xx
\* body without reply text is saved and returned as an empty reply.
ChatAxiosPostAcceptsEmpty(r, outcome) ==
    /\ req[r].pc = "upstream"
    /\ LET q == [req[r] EXCEPT !.outcome = outcome]
           reply == ParseReply(outcome.data)
       IN  IF outcome.kind # "ok"
           THEN /\ Set(r, Respond(q, 500, CatchMessage(outcome)))
                /\ now' = now
           ELSE /\ Set(r, [q EXCEPT !.pc = "saveReply", !.body = reply,
                                    !.convo = Push(@, "model", reply, q.id)])
                /\ now' = now + 2
    /\ UNCHANGED <<users, convos, apiKey, nextId, started>>

\* Lines 88-108 and 112-116: axios.post settles.  A thrown error goes to the
\* catch block (500); a 2xx body without reply text is answered 502; a reply
\* is pushed and convo.save issued.
ChatAxiosPost(r, outcome) ==
    /\ req[r].pc = "upstream"
    /\ LET q == [req[r] EXCEPT !.outcome = outcome]
           reply == ParseReply(outcome.data)
       IN  IF outcome.kind # "ok"
           THEN /\ Set(r, Respond(q, 500, CatchMessage(outcome)))
                /\ now' = now
           ELSE IF reply = Empty
           THEN /\ Set(r, Respond(q, 502, ApiError(outcome.data)))
                /\ now' = now
           ELSE /\ Set(r, [q EXCEPT !.pc = "saveReply", !.body = reply,
                                    !.convo = Push(@, "model", reply, q.id)])
                /\ now' = now + 2
    /\ UNCHANGED <<users, convos, apiKey, nextId, started>>

\* Mutant of ChatSaveReply: the reply is returned without having been saved.
ChatSaveReplyNoSave(r) ==
    /\ req[r].pc = "saveReply"
    /\ convos' = convos
    /\ Set(r, Respond(req[r], 200, req[r].body))
    /\ UNCHANGED <<users, apiKey, now, nextId, started>>

\* Lines 108-111: the reply save resolves; reply.
ChatSaveReply(r) ==
    /\ req[r].pc = "saveReply"
    /\ convos' = SavedConvos(req[r].convo)
    /\ Set(r, Respond([req[r] EXCEPT !.writes = @ + 1], 200, req[r].body))
    /\ UNCHANGED <<users, apiKey, now, nextId, started>>

\* Lines 112-116: an awaited store operation rejects (store unreachable,
\* write failed); the catch block answers 500.
ChatStoreError(r) ==
    /\ req[r].pc \in {"findUser", "findConvo", "saveUser", "saveFallback", "saveReply"}
    /\ Set(r, Respond([req[r] EXCEPT !.failedAt = req[r].pc], 500, ServerError))
    /\ UNCHANGED <<users, convos, apiKey, now, nextId, started>>

\* ------------------------------------------------------------ POST /login
\* Lines 149-152: read the form, issue User.findOne({username, password}).
PostLogin(r, body) ==
    /\ Arrives(r)
    /\ Set(r, [Fresh("login") EXCEPT !.pc = "loginFind",
                                     !.username = body.username,
                                     !.password = body.password])
    /\ started' = started + 1
    /\ UNCHANGED <<users, convos, apiKey, now, nextId>>

\* Lines 152-162: findOne resolves; on a match set lastLogin and issue
\* user.save, otherwise send the login-failed page.
LoginFindOne(r) ==
    /\ req[r].pc = "loginFind"
    /\ LET i == FindUserByCredentials(req[r].username, req[r].password)
           q == [req[r] EXCEPT !.reads = @ + 1]
       IN  IF i = 0
           THEN /\ Set(r, Respond(q, 200, <<"Login failed">>))
                /\ now' = now
           ELSE /\ Set(r, [q EXCEPT !.pc = "loginSave", !.user = users[i].id,
                                    !.stamp = now])
                /\ now' = now + 1
    /\ UNCHANGED <<users, convos, apiKey, nextId, started>>

\* Mutant of SavedLogin: the save writes the whole document with fresh
\* timestamps, joinDate included.
SavedLoginResetsJoinDate(userId, t) ==
    [i \in Indices(users) |->
        IF users[i].id = userId
        THEN [users[i] EXCEPT !.lastLogin = t, !.joinDate = t]
        ELSE users[i]]

\* user.save() of a loaded user: $set of the modified path lastLogin.
SavedLogin(userId, t) ==
    [i \in Indices(users) |->
        IF users[i].id = userId THEN [users[i] EXCEPT !.lastLogin = t] ELSE users[i]]

\* Lines 156-158: the save resolves; redirect to the chat page.
LoginSave(r) ==
    /\ req[r].pc = "loginSave"
    /\ users' = SavedLogin(req[r].user, req[r].stamp)
    /\ Set(r, Respond([req[r] EXCEPT !.writes = @ + 1], 302,
                      <<"/chat.html?username=">> \o req[r].username))
    /\ UNCHANGED <<convos, apiKey, now, nextId, started>>

\* Lines 163-166: an awaited store operation rejects; the error page is sent.
LoginStoreError(r) ==
    /\ req[r].pc \in {"loginFind", "loginSave"}
    /\ Set(r, Respond([req[r] EXCEPT !.failedAt = req[r].pc], 200, ServerError))
    /\ UNCHANGED <<users, convos, apiKey, now, nextId, started>>

\* --------------------------------------------------------- POST /register
\* Lines 176-180: read the form, issue User.findOne({username}).
PostRegister(r, body) ==
    /\ Arrives(r)
    /\ Set(r, [Fresh("register") EXCEPT !.pc = "regFind",
                                        !.username = body.username,
                                        !.password = body.password])
    /\ started' = started + 1
    /\ UNCHANGED <<users, convos, apiKey, now, nextId>>

\* Mutant of RegisterFindOne: the pre-check looks for the username together
\* with the password.
RegisterFindOneChecksPassword(r) ==
    /\ req[r].pc = "regFind"
    /\ LET i == FindUserByCredentials(req[r].username, req[r].password)
           q == [req[r] EXCEPT !.reads = @ + 1]
       IN  IF i # 0
           THEN /\ Set(r, Respond(q, 200, <<"User already exists">>))
                /\ UNCHANGED <<now, nextId>>
           ELSE /\ Set(r, [q EXCEPT !.pc = "regSave", !.user = nextId,
                                    !.stamp = now])
                /\ now' = now + 2
                /\ nextId' = nextId + 1
    /\ UNCHANGED <<users, convos, apiKey, started>>

\* Mutant of RegisterFindOne: the `return` before res.send of the rejection
\* is missing, so the handler goes on to create the user and answer again.
RegisterFindOneNoReturn(r) ==
    /\ req[r].pc = "regFind"
    /\ LET i == FindUserByName(req[r].username)
           q == [req[r] EXCEPT !.reads = @ + 1]
           sent == IF i # 0 THEN Respond(q, 200, <<"User already exists">>) ELSE q
       IN  Set(r, [sent EXCEPT !.pc = "regSave", !.user = nextId, !.stamp = now])
    /\ now' = now + 2
    /\ nextId' = nextId + 1
    /\ UNCHANGED <<users, convos, apiKey, started>>

\* Lines 180-187: findOne resolves; reject an existing username, otherwise
\* construct the new User (fresh _id, date defaults) and issue save.
RegisterFindOne(r) ==
    /\ req[r].pc = "regFind"
    /\ LET i == FindUserByName(req[r].username)
           q == [req[r] EXCEPT !.reads = @ + 1]
       IN  IF i # 0
           THEN /\ Set(r, Respond(q, 200, <<"User already exists">>))
                /\ UNCHANGED <<now, nextId>>
           ELSE /\ Set(r, [q EXCEPT !.pc = "regSave", !.user = nextId,
                                    !.stamp = now])
                /\ now' = now + 2
                /\ nextId' = nextId + 1
    /\ UNCHANGED <<users, convos, apiKey, started>>

\* Mutant of RegisterSave: the collection has a unique index on username, so
\* inserting a username that is already there is rejected.
RegisterSaveUniqueIndex(r) ==
    /\ req[r].pc = "regSave"
    /\ IF req[r].username = Empty \/ req[r].password = Empty
       THEN /\ Set(r, Respond([req[r] EXCEPT !.failedAt = "validate"], 200,
                              ServerError))
            /\ users' = users
       ELSE IF FindUserByName(req[r].username) # 0
       THEN /\ Set(r, Respond([req[r] EXCEPT !.failedAt = "duplicate"], 200,
                              ServerError))
            /\ users' = users
       ELSE /\ Set(r, Respond([req[r] EXCEPT !.writes = @ + 1], 200,
                              <<"Signup successful">>))
            /\ users' = Append(users, NewUser(req[r].user, req[r].username,
                                              req[r].password, req[r].stamp))
    /\ UNCHANGED <<convos, apiKey, now, nextId, started>>

\* Lines 187-189: newUser.save() validates (username and password are
\* required, which an empty string fails) and inserts; a validation error is
\* thrown to the catch block.
RegisterSave(r) ==
    /\ req[r].pc = "regSave"
    /\ IF req[r].username = Empty \/ req[r].password = Empty
       THEN /\ Set(r, Respond([req[r] EXCEPT !.failedAt = "validate"], 200,
                              ServerError))
            /\ users' = users
       ELSE /\ Set(r, Respond([req[r] EXCEPT !.writes = @ + 1], 200,
                              <<"Signup successful">>))
            /\ users' = Append(users, NewUser(req[r].user, req[r].username,
                                              req[r].password, req[r].stamp))
    /\ UNCHANGED <<convos, apiKey, now, nextId, started>>

\* Lines 190-193: an awaited store operation rejects; the error page is sent.
RegisterStoreError(r) ==
    /\ req[r].pc \in {"regFind", "regSave"}
    /\ Set(r, Respond([req[r] EXCEPT !.failedAt = req[r].pc], 200, ServerError))
    /\ UNCHANGED <<users, convos, apiKey, now, nextId, started>>

\* ----------------------------------------------------------- specification
Next ==
    \E r \in Slots :
        \/ \E b \in ChatBodies : PostChat(r, b)
        \/ ChatFindUser(r)
        \/ ChatFindConvo(r)
        \/ ChatSaveUserTurn(r)
        \/ ChatSaveFallback(r)
        \/ \E o \in UpstreamOutcomes : ChatAxiosPost(r, o)
        \/ ChatSaveReply(r)
        \/ ChatStoreError(r)
        \/ \E b \in FormBodies : PostLogin(r, b)
        \/ LoginFindOne(r)
        \/ LoginSave(r)
        \/ LoginStoreError(r)
        \/ \E b \in FormBodies : PostRegister(r, b)
        \/ RegisterFindOne(r)
        \/ RegisterSave(r)
        \/ RegisterStoreError(r)

Spec == Init /\ [][Next]_vars

\* The same server when no two requests overlap: a request arrives only
\* after every earlier one was answered.
Quiet == InFlight = {}

SeqNext ==
    \E r \in Slots :
        \/ Quiet /\ \E b \in ChatBodies : PostChat(r, b)
        \/ ChatFindUser(r)
        \/ ChatFindConvo(r)
        \/ ChatSaveUserTurn(r)
        \/ ChatSaveFallback(r)
        \/ \E o \in UpstreamOutcomes : ChatAxiosPost(r, o)
        \/ ChatSaveReply(r)
        \/ ChatStoreError(r)
        \/ Quiet /\ \E b \in FormBodies : PostLogin(r, b)
        \/ LoginFindOne(r)
        \/ LoginSave(r)
        \/ LoginStoreError(r)
        \/ Quiet /\ \E b \in FormBodies : PostRegister(r, b)
        \/ RegisterFindOne(r)
        \/ RegisterSave(r)
        \/ RegisterStoreError(r)

SeqSpec == Init /\ [][SeqNext]_vars

\* The steps of the handler running in slot r after the arrival: each is the
\* continuation of an awaited store operation or upstream call.
Continue(r) ==
    \/ ChatFindUser(r)
    \/ ChatFindConvo(r)
    \/ ChatSaveUserTurn(r)
    \/ ChatSaveFallback(r)
    \/ \E o \in UpstreamOutcomes : ChatAxiosPost(r, o)
    \/ ChatSaveReply(r)
    \/ ChatStoreError(r)
    \/ LoginFindOne(r)
    \/ LoginSave(r)
    \/ LoginStoreError(r)
    \/ RegisterFindOne(r)
    \/ RegisterSave(r)
    \/ RegisterStoreError(r)

\* Every awaited store operation and upstream call settles (mongoose
\* resolves or rejects, axios.post resolves, rejects or times out after
\* 120 s), and the event loop then runs the continuation.
FairSpec == Spec /\ \A r \in Slots : WF_vars(Continue(r))

\* -------------------------------------------------------------- properties
Done(s) == req[s].pc = "done"
IsChat(s) == req[s].kind = "chat"

\* The places <<conversation, position>> of the persisted messages.
Places ==
    UNION { { <<i, j>> : j \in Indices(convos[i].messages) } : i \in Indices(convos) }
Msg(p) == convos[p[1]].messages[p[2]]

\* The places of the messages request number id persisted.
By(id) == { p \in Places : Msg(p).by = id }

\* Some User record carries this username.
UserKnown(username) == \E i \in Indices(users) : users[i].username = username

\* The request sent a non-empty username and a non-empty message.
ValidBody(s) ==
    /\ req[s].rawUsername.present /\ req[s].rawUsername.str # Empty
    /\ req[s].rawText.present /\ req[s].rawText.str # Empty

\* An undisturbed fallback turn: answered, valid body, known user, no API
\* key, and none of its store operations rejected.
FallbackTurn(s) ==
    /\ Done(s) /\ IsChat(s) /\ ~apiKey
    /\ ValidBody(s)
    /\ UserKnown(req[s].rawUsername.str)
    /\ req[s].failedAt = ""

\* C1: when requests do not overlap and no API key is configured, a chat
\* request with non-empty username and message for an existing user, none of
\* whose store operations fails, is answered 200 with the fallback text built
\* from the message alone, and the user's conversation holds exactly two more
\* messages than before: the user turn with the message, then the model turn
\* with the reply, in that order at the end of the transcript.
C1_FallbackTurn ==
    \A s \in Slots :
        FallbackTurn(s) =>
            /\ req[s].status = 200
            /\ req[s].body = <<"Local-mode reply: I heard \"">> \o req[s].rawText.str
                                \o <<"\" - set GOOGLE_API_KEY to enable real AI.">>
            /\ \E i \in Indices(convos) :
                  LET m == convos[i].messages
                      n == Len(m)
                  IN  /\ \E u \in Indices(users) :
                            /\ users[u].username = req[s].rawUsername.str
                            /\ convos[i].user = users[u].id
                      /\ n = req[s].base + 2
                      /\ By(req[s].id) = { <<i, n - 1>>, <<i, n>> }
                      /\ m[n - 1].role = "user" /\ m[n - 1].text = req[s].rawText.str
                      /\ m[n].role = "model" /\ m[n].text = req[s].body

\* A fallback turn on a conversation that already held an earlier turn.
C1_Witness ==
    \E s \in Slots : FallbackTurn(s) /\ req[s].status = 200 /\ req[s].base = 2

\* The upstream result carries no reply text: no response, an error
\* response, or a 2xx body without a non-empty text part.
GenerationFailed(o) ==
    \/ o.kind \in {"network", "http"}
    \/ /\ o.kind = "ok"
       /\ ~(o.data.hasParts /\ \E k \in Indices(o.data.parts) : o.data.parts[k] # Empty)

\* C2: a chat request whose upstream call failed (so its user-turn save had
\* succeeded) is answered with an error status, and the store holds exactly
\* one message of that request: its user turn, in the conversation of its
\* user; it never holds a model turn of that request.
C2_GenerationFailureKeepsPrompt ==
    \A s \in Slots :
        (IsChat(s) /\ GenerationFailed(req[s].outcome)) =>
            /\ Done(s)
            /\ req[s].status \in {500, 502}
            /\ \E p \in Places :
                  /\ By(req[s].id) = {p}
                  /\ Msg(p).role = "user"
                  /\ Msg(p).text = req[s].text
                  /\ convos[p[1]].user = req[s].user

\* An upstream 2xx answer without reply text, after the user turn was saved.
C2_Witness ==
    \E s \in Slots :
        /\ IsChat(s) /\ req[s].outcome.kind = "ok"
        /\ GenerationFailed(req[s].outcome)
        /\ req[s].status = 502
        /\ By(req[s].id) # {}

\* C3: when requests do not overlap, and as long as no chat turn that saved
\* its user turn ended without a reply, between requests every transcript is
\* user, model, user, model, ...; the two messages of a pair come from the
\* same request, pairs are in arrival order of their requests, and the pair
\* of a request answered 200 carries its message text and the reply returned.
C3_SequentialTurnsAlternate ==
    (Quiet /\ ~broken) =>
        /\ \A i \in Indices(convos) :
              LET m == convos[i].messages
              IN  /\ Len(m) % 2 = 0
                  /\ \A k \in 1..(Len(m) \div 2) :
                        /\ m[2 * k - 1].role = "user"
                        /\ m[2 * k].role = "model"
                        /\ m[2 * k - 1].by = m[2 * k].by
                        /\ k > 1 => m[2 * k - 3].by < m[2 * k - 1].by
        /\ \A s \in Slots :
              (IsChat(s) /\ Done(s) /\ req[s].status = 200) =>
                  \E i \in Indices(convos) :
                      LET m == convos[i].messages
                          n == Len(m)
                      IN  /\ convos[i].user = req[s].user
                          /\ n >= 2
                          /\ m[n - 1].by = req[s].id /\ m[n - 1].text = req[s].rawText.str
                          /\ m[n].by = req[s].id /\ m[n].text = req[s].body

\* Two successful turns in a row, requests 1 and 2: a transcript of two
\* pairs, the second persisted by the request answered last.
C3_Witness ==
    /\ Quiet /\ ~broken
    /\ \E i \in Indices(convos), s \in Slots :
          /\ Len(convos[i].messages) = 4
          /\ convos[i].messages[1].by = 1
          /\ IsChat(s) /\ Done(s) /\ req[s].status = 200 /\ req[s].id = 2
          /\ convos[i].messages[4].by = 2

\* The body lacks a username or a message (missing or the empty string).
MissingField(s) ==
    \/ ~req[s].rawUsername.present \/ req[s].rawUsername.str = Empty
    \/ ~req[s].rawText.present \/ req[s].rawText.str = Empty

\* C4: a chat request whose username or message is missing or empty is
\* answered 400 without having issued any store read, store write or
\* upstream call, and the step that answers 400 leaves both collections as
\* they were.
C4_InvalidRequestTouchesNothing ==
    /\ [](\A s \in Slots :
            (IsChat(s) /\ MissingField(s)) =>
                /\ Done(s) /\ req[s].status = 400
                /\ req[s].reads = 0 /\ req[s].writes = 0 /\ req[s].calls = 0
                /\ By(req[s].id) = {})
    /\ [][\A s \in Slots :
            (req'[s] # req[s] /\ req'[s].status = 400) =>
                (users' = users /\ convos' = convos)]_vars

\* The example of the specification: an empty message for a known user.
C4_Witness ==
    \E s \in Slots :
        /\ IsChat(s) /\ req[s].status = 400
        /\ req[s].rawUsername = Given(<<"a">>) /\ req[s].rawText = Given(Empty)
        /\ UserKnown(<<"a">>)

\* C5 as stated: a chat request whose username or message is empty after
\* trimming is answered 400 and none of its messages is persisted.
C5_TrimmedValidation ==
    \A s \in Slots :
        (IsChat(s) /\ Done(s)
            /\ (Trim(req[s].rawUsername.str) = Empty \/ Trim(req[s].rawText.str) = Empty))
        => (req[s].status = 400 /\ By(req[s].id) = {})

\* C5, amended: validation does not trim.  An answered chat request got 400
\* exactly when its username or message was missing or the empty string, and
\* then none of its messages is persisted; a whitespace-only value counts as
\* present, and a request answered 200 persisted its message text verbatim
\* as its user turn.
C5_UntrimmedValidation ==
    \A s \in Slots :
        (IsChat(s) /\ Done(s)) =>
            /\ req[s].status = 400 <=> MissingField(s)
            /\ req[s].status = 400 => By(req[s].id) = {}
            /\ req[s].status = 200 =>
                  \E p \in By(req[s].id) :
                      Msg(p).role = "user" /\ Msg(p).text = req[s].rawText.str

\* A whitespace-only message was accepted and persisted.
C5_Witness ==
    \E s \in Slots :
        /\ IsChat(s) /\ Done(s) /\ req[s].status = 200
        /\ req[s].rawText = Given(Blank)
        /\ \E p \in By(req[s].id) : Msg(p).role = "user" /\ Msg(p).text = Blank

\* C6: when the user lookup of a chat request resolves and no User record
\* carries the username, the request is answered 404 in that step and the
\* step leaves both collections unchanged; a request answered 404 has issued
\* no store write and no upstream call and none of its messages is persisted
\* (so it created no conversation); no step of a chat request changes the
\* User collection.
C6_UserNotFoundTouchesNothing ==
    /\ [](\A s \in Slots :
            (IsChat(s) /\ req[s].status = 404) =>
                /\ Done(s)
                /\ req[s].writes = 0 /\ req[s].calls = 0
                /\ By(req[s].id) = {})
    /\ [][\A s \in Slots :
            /\ (req[s].pc = "findUser" /\ req'[s].pc # "findUser"
                    /\ req'[s].failedAt = "" /\ ~UserKnown(req[s].username))
               => (req'[s].status = 404 /\ users' = users /\ convos' = convos)
            /\ (req'[s] # req[s] /\ req'[s].kind = "chat") => users' = users]_vars

\* The example of the specification: a chat for a user nobody registered.
C6_Witness ==
    \E s \in Slots :
        /\ IsChat(s) /\ req[s].status = 404
        /\ req[s].rawUsername = Given(<<"a">>) /\ ~UserKnown(<<"a">>)

\* The User records carrying this username.
Named(username) == { i \in Indices(users) : users[i].username = username }

\* C7: when requests do not overlap, a register request whose username is
\* already registered when its pre-check resolves is rejected in that step
\* and the User collection is unchanged; after a register request was
\* answered with success or with the rejection, exactly one User record
\* carries its username.
C7_SequentialDuplicateRegistration ==
    /\ [](\A s \in Slots :
            (req[s].kind = "register" /\ Done(s)
                /\ req[s].body \in {<<"Signup successful">>, <<"User already exists">>})
            => Cardinality(Named(req[s].username)) = 1)
    /\ [][\A s \in Slots :
            (req[s].pc = "regFind" /\ req'[s].pc # "regFind"
                /\ req'[s].failedAt = "" /\ UserKnown(req[s].username))
            => (req'[s].body = <<"User already exists">> /\ Done(s)'
                    /\ users' = users)]_vars

\* The second of two registrations in a row: request 2 is rejected because
\* of the record request 1 inserted (its _id is one this run generated).
C7_Witness ==
    \E s \in Slots :
        /\ req[s].kind = "register" /\ req[s].id = 2
        /\ req[s].body = <<"User already exists">>
        /\ \E i \in Named(req[s].username) : users[i].id >= 3

\* C8 as stated: no two Conversation records reference the same User.
C8_OneConversationPerUser ==
    \A i, j \in Indices(convos) : convos[i].user = convos[j].user => i = j

\* C9: every step keeps every Conversation record in place, with the same
\* _id and user, and its messages before the step are a prefix of its
\* messages after the step.
C9_AppendOnly ==
    [][/\ Len(convos') >= Len(convos)
       /\ \A i \in Indices(convos) :
            /\ convos'[i].id = convos[i].id
            /\ convos'[i].user = convos[i].user
            /\ Len(convos'[i].messages) >= Len(convos[i].messages)
            /\ SubSeq(convos'[i].messages, 1, Len(convos[i].messages))
                 = convos[i].messages]_vars

\* Two overlapping requests both appended to the conversation of an earlier
\* run.
C9_Witness ==
    \E i \in Indices(convos) :
        /\ convos[i].messages # <<>> /\ convos[i].messages[1].by = 0
        /\ \E j, k \in Indices(convos[i].messages) :
              convos[i].messages[j].by = 1 /\ convos[i].messages[k].by = 2

\* The user turn of the request is in the store.
UserTurnPersisted(s) ==
    \E p \in By(req[s].id) : Msg(p).role = "user" /\ Msg(p).text = req[s].text

\* C10: whenever a chat request has started generation (built the fallback
\* reply or issued the upstream call) or a model turn of it is persisted, its
\* user turn is persisted; a request whose user-turn save was rejected
\* started no generation, issued no upstream call and persisted nothing.
C10_PersistBeforeGenerate ==
    \A s \in Slots :
        IsChat(s) =>
            /\ (req[s].generated \/ req[s].calls > 0
                    \/ \E p \in By(req[s].id) : Msg(p).role = "model")
               => UserTurnPersisted(s)
            /\ req[s].failedAt = "saveUser" =>
                  (~req[s].generated /\ req[s].calls = 0 /\ By(req[s].id) = {})

\* One request lost its user-turn save while another reached the upstream
\* call.
C10_Witness ==
    \E s, t \in Slots :
        /\ IsChat(s) /\ req[s].failedAt = "saveUser"
        /\ IsChat(t) /\ req[t].calls = 1 /\ UserTurnPersisted(t)

\* The 2xx body carries no non-empty text part.
NoReplyText(o) ==
    /\ o.kind = "ok"
    /\ ~(o.data.hasParts /\ \E k \in Indices(o.data.parts) : o.data.parts[k] # Empty)

\* C11: a chat request whose upstream call returned (2xx) a body without a
\* non-empty text part is answered 502 in that step, is never answered 200
\* and never has a model turn persisted; and every persisted message has
\* non-empty text.
C11_NoEmptyReply ==
    /\ \A s \in Slots :
          (IsChat(s) /\ NoReplyText(req[s].outcome)) =>
              /\ Done(s) /\ req[s].status = 502
              /\ ~\E p \in By(req[s].id) : Msg(p).role = "model"
    /\ \A p \in Places : Msg(p).text # Empty

\* The body had a parts list whose only text is empty.
C11_Witness ==
    \E s \in Slots :
        /\ IsChat(s) /\ req[s].status = 502
        /\ req[s].outcome.data.hasParts /\ req[s].outcome.data.parts = << Empty >>
        /\ UserTurnPersisted(s)

\* What the caller sees of an answered request.
Reported(s) == <<req[s].status, req[s].body>>

\* C12 as stated: the answer to a chat request whose upstream call failed
\* without a response differs from the answer to a chat request one of whose
\* store operations was rejected.
C12_DistinctUpstreamUnavailable ==
    \A s, t \in Slots :
        (IsChat(s) /\ Done(s) /\ req[s].outcome.kind = "network"
            /\ IsChat(t) /\ Done(t) /\ req[t].failedAt # "")
        => Reported(s) # Reported(t)

\* C12, amended: a chat request whose upstream call failed without a
\* response and a chat request one of whose store operations was rejected are
\* both answered 500 with the message "Server error"; only an upstream error
\* response that carries an error message is answered 500 with that message.
C12_NetworkFailureIsServerError ==
    \A s \in Slots :
        (IsChat(s) /\ Done(s)) =>
            /\ (req[s].outcome.kind = "network" \/ req[s].failedAt # "")
               => Reported(s) = <<500, <<"Server error">> >>
            /\ (req[s].outcome.kind = "http" /\ req[s].outcome.data.error # Empty)
               => Reported(s) = <<500, req[s].outcome.data.error>>

\* One request lost the upstream connection, another lost a store operation.
C12_Witness ==
    \E s, t \in Slots :
        /\ IsChat(s) /\ Done(s) /\ req[s].outcome.kind = "network"
        /\ IsChat(t) /\ Done(t) /\ req[t].failedAt # ""
        /\ Reported(s) = Reported(t)

\* C13: no request is ever answered twice, a request is answered exactly
\* when its handler has finished, and, given that every awaited store
\* operation and upstream call settles, every request that arrived is
\* eventually answered, whatever the other requests do.
C13_AnsweredExactlyOnce ==
    /\ [](\A s \in Slots :
            /\ req[s].responses <= 1
            /\ Done(s) <=> req[s].responses = 1)
    /\ \A s \in Slots : (req[s].pc \notin {"idle", "done"}) ~> Done(s)

\* A request failed in the store and the request that arrived after it was
\* still answered with a reply.
C13_Witness ==
    \E s, t \in Slots :
        /\ Done(s) /\ req[s].failedAt # "" /\ req[s].responses = 1
        /\ IsChat(t) /\ Done(t) /\ req[t].id > req[s].id
        /\ req[t].status = 200 /\ req[t].responses = 1

\* C14: a chat request issues at most one upstream call; without an API key
\* it issues none, receives no upstream result and is never answered 502.
C14_SingleAttempt ==
    \A s \in Slots :
        IsChat(s) =>
            /\ req[s].calls <= 1
            /\ ~apiKey =>
                  /\ req[s].calls = 0
                  /\ req[s].outcome = NoOutcome
                  /\ req[s].status # 502

\* The upstream call failed without a response and the request was answered
\* after that single attempt.
C14_Witness ==
    \E s \in Slots :
        /\ IsChat(s) /\ Done(s) /\ req[s].outcome.kind = "network"
        /\ req[s].calls = 1 /\ req[s].status = 500

\* C15: the save of a register request checks nothing about the usernames
\* already stored: whenever it resolves for a non-empty username and
\* password, it appends one User record with that username and the request
\* is answered with success, whether or not a record with the username
\* exists by then.  (Two overlapping registrations of an unused username can
\* therefore both succeed: the witness.)
C15_RegisterSaveIgnoresExisting ==
    [][\A s \in Slots :
          (req[s].pc = "regSave" /\ req'[s].pc = "done"
              /\ req'[s].failedAt # "regSave"
              /\ req[s].username # Empty /\ req[s].password # Empty)
          => /\ req'[s].body = <<"Signup successful">>
             /\ Len(users') = Len(users) + 1
             /\ users'[Len(users')].username = req[s].username
             /\ SubSeq(users', 1, Len(users)) = users]_vars

\* Both registrations of a username unused at the start reported success and
\* the collection holds two records with it.
C15_Witness ==
    \E s, t \in Slots :
        /\ s # t
        /\ req[s].kind = "register" /\ req[t].kind = "register"
        /\ req[s].username = req[t].username
        /\ req[s].body = <<"Signup successful">> /\ req[t].body = <<"Signup successful">>
        /\ Cardinality(Named(req[s].username)) = 2
        /\ \A i \in Named(req[s].username) : users[i].id >= 3

\* The roles of a transcript, in order.
Roles(messages) == [j \in Indices(messages) |-> messages[j].role]

\* C16: the history a chat request builds for generation is the transcript
\* it loaded followed by its own user turn, whatever other requests have
\* persisted since it loaded: its length is the loaded length plus one, its
\* entries up to the loaded length are the first messages of a stored
\* conversation of its user, and its last entry is the request's message.
\* (Two overlapping turns can therefore both load the same history and leave
\* a transcript that does not alternate: the witness.)
C16_HistoryIsLoadedSnapshot ==
    \A s \in Slots :
        (IsChat(s) /\ req[s].generated) =>
            /\ Len(req[s].contents) = req[s].base + 1
            /\ req[s].contents[req[s].base + 1] =
                  [role |-> "user", parts |-> << req[s].text >>]
            /\ \E i \in Indices(convos) :
                  /\ convos[i].user = req[s].user
                  /\ Len(convos[i].messages) >= req[s].base
                  /\ \A j \in 1..req[s].base :
                        req[s].contents[j].parts = << convos[i].messages[j].text >>

\* Two overlapping turns on the conversation of an earlier run both loaded
\* its two messages, both got a reply, and the transcript continues user,
\* user, model, model; each sent a history without the other's user turn.
C16_Witness ==
    \E i \in Indices(convos), s, t \in Slots :
        /\ s # t
        /\ IsChat(s) /\ IsChat(t) /\ Done(s) /\ Done(t)
        /\ req[s].status = 200 /\ req[t].status = 200
        /\ req[s].base = 2 /\ req[t].base = 2
        /\ Len(req[s].contents) = 3 /\ Len(req[t].contents) = 3
        /\ Roles(convos[i].messages) =
              <<"user", "model", "user", "user", "model", "model">>

\* C17: when requests do not overlap, a chat request waiting for the
\* upstream call has sent one entry per persisted message of its user's
\* conversation, in the same order, user messages as role "user" and model
\* messages as role "assistant", each with the message text as its only
\* part, and the last entry is the request's own message.
C17_FullOrderedHistory ==
    \A s \in Slots :
        (IsChat(s) /\ req[s].pc = "upstream") =>
            \E i \in Indices(convos) :
                LET m == convos[i].messages
                    c == req[s].contents
                IN  /\ convos[i].user = req[s].user
                    /\ \A k \in Indices(convos) : convos[k].user = req[s].user => k = i
                    /\ Len(c) = Len(m)
                    /\ \A j \in Indices(m) :
                          /\ c[j].parts = << m[j].text >>
                          /\ m[j].role = "user" => c[j].role = "user"
                          /\ m[j].role = "model" => c[j].role = "assistant"
                    /\ Len(c) >= 1
                    /\ c[Len(c)] = [role |-> "user", parts |-> << req[s].rawText.str >>]
                    /\ m[Len(m)].by = req[s].id

\* The history sent includes the user turn an earlier request left without
\* a reply: request 1 failed after saving its turn, request 2 sends it.
C17_Witness ==
    \E s \in Slots :
        /\ IsChat(s) /\ req[s].pc = "upstream" /\ req[s].id = 2
        /\ [j \in Indices(req[s].contents) |-> req[s].contents[j].role]
              = <<"user", "assistant", "user", "user">>
        /\ broken

\* The slot whose request took the step (a step moves exactly one request).
Stepped(s) == req'[s] # req[s]

\* C18: no step of a login or register request changes any Conversation; a
\* step of a login request changes nothing in the User collection except the
\* lastLogin field of the one record it matched (same username and password
\* as submitted), and the step in which a login finds no matching record
\* changes no User at all.
C18_LoginFrame ==
    [][ \A s \in Slots :
          (Stepped(s) /\ req'[s].kind \in {"login", "register"}) =>
              /\ convos' = convos
              /\ req'[s].kind = "login" =>
                    /\ Len(users') = Len(users)
                    /\ \A i \in Indices(users) :
                          \/ users'[i] = users[i]
                          \/ /\ users'[i] = [users[i] EXCEPT !.lastLogin = users'[i].lastLogin]
                             /\ req[s].pc = "loginSave"
                             /\ users[i].id = req[s].user
                             /\ users[i].username = req'[s].username
                             /\ users[i].password = req'[s].password
                    /\ Cardinality({ i \in Indices(users) : users'[i] # users[i] }) <= 1
                    /\ req'[s].body = <<"Login failed">> => users' = users
    ]_vars

\* One login was refused and another one succeeded: the matched record has
\* the new lastLogin and its other fields as registered, next to a
\* conversation that is as it was.
C18_Witness ==
    \E s, t \in Slots :
        /\ req[s].kind = "login" /\ Done(s) /\ req[s].body = <<"Login failed">>
        /\ req[t].kind = "login" /\ Done(t) /\ req[t].status = 302
        /\ \E i \in Indices(users) :
              /\ users[i] = [NewUser(1, <<"a">>, <<"p">>, 0) EXCEPT !.lastLogin = req[t].stamp]
              /\ req[t].stamp > 1
        /\ Len(convos) = 1

\* The number of messages of the given role among the first n of a sequence.
CountRole(messages, role, n) ==
    Cardinality({ j \in 1..n : messages[j].role = role })

\* C19: every persisted conversation has at least one message, starts with
\* a user message, and in each of its prefixes the user messages are at
\* least as many as the model messages.
C19_RepliesNeverOutnumberPrompts ==
    \A i \in Indices(convos) :
        LET m == convos[i].messages
        IN  /\ Len(m) >= 1
            /\ m[1].role = "user"
            /\ \A n \in 0..Len(m) :
                  CountRole(m, "user", n) >= CountRole(m, "model", n)

\* Two overlapping requests built a conversation from nothing: both prompts
\* were stored before either reply.
C19_Witness ==
    \E i \in Indices(convos) :
        /\ Roles(convos[i].messages) = <<"user", "user", "model", "model">>
        /\ \A j \in 1..4 : convos[i].messages[j].by # 0
        /\ convos[i].messages[1].by # convos[i].messages[2].by

\* C20 as stated: no step lowers the persisted updatedAt of a conversation,
\* and a step that appends to a conversation leaves its updatedAt at or
\* after the creation time of the message persisted last.
C20_UpdatedAtNeverGoesBack ==
    [][ \A i \in Indices(convos) :
          /\ convos'[i].updatedAt >= convos[i].updatedAt
          /\ convos'[i].messages # convos[i].messages =>
                convos'[i].updatedAt >=
                    convos'[i].messages[Len(convos'[i].messages)].createdAt
    ]_vars
====
